---------------------------- MODULE Spec2Model ----------------------------
(***************************************************************************)
(* Model of the JSON-RPC HTTP client of http-client/src/client.rs:        *)
(* HttpClientBuilder::build, HttpClient::notification, HttpClient::request,*)
(* HttpClient::batch_request and parse_request_id.                         *)
(*                                                                         *)
(* The request id counter is an AtomicU64.  TLC's integers are 32 bits     *)
(* wide, so a u64 is kept at its full width as four 16-bit limbs, most     *)
(* significant first: <<l1, l2, l3, l4>> stands for                        *)
(* l1*2^48 + l2*2^32 + l3*2^16 + l4.                                       *)
(***************************************************************************)
EXTENDS Integers, Sequences, FiniteSets, TLC

\* ------------------------------------------------------------------ bounds
\* Number of calls (notification, request, batch_request) the callers start.
MaxCalls == 2
\* Largest number of entries of a batch.
MaxBatch == 2
\* Number of calls started where every answer of the server is tried.
MaxReplyCalls == 1

\* The concurrent callers sharing the one client.
Callers == {1, 2}

\* ------------------------------------------------------------------ u64
\* Largest value of one 16-bit limb of the AtomicU64 counter.
LimbMax == 65535

U64Zero == <<0, 0, 0, 0>>
U64Max == <<LimbMax, LimbMax, LimbMax, LimbMax>>

\* v + 1 with the carry entering at limb i; a carry out of limb 1 is dropped,
\* which is the wrap to zero of a 64-bit addition.
RECURSIVE AddCarry(_, _)
AddCarry(v, i) ==
    IF i = 0 THEN v
    ELSE IF v[i] = LimbMax THEN AddCarry([v EXCEPT ![i] = 0], i - 1)
    ELSE [v EXCEPT ![i] = v[i] + 1]

\* u64::wrapping_add(v, 1)
wrapping_add(v) == AddCarry(v, Len(v))

\* Mutant of fetch_add: the counter is read but not advanced.
fetch_add_load(cur) == [ret |-> cur, new |-> cur]

\* Mutant of fetch_add: the addition saturates at u64::MAX instead of wrapping.
fetch_add_saturating(cur) ==
    [ret |-> cur, new |-> IF cur = U64Max THEN U64Max ELSE wrapping_add(cur)]

\* AtomicU64::fetch_add(1, _): returns the previous value, stores previous + 1
\* modulo 2^64.  One atomic read-modify-write, whatever the Ordering.
fetch_add(cur) == [ret |-> cur, new |-> wrapping_add(cur)]

\* AtomicU64::new(0), the counter HttpClientBuilder::build gives the client.
request_id_new == U64Zero

\* The ids of the u64 small enough to be written n = 0 .. LimbMax.
U64Of(n) == <<0, 0, 0, n>>

\* ------------------------------------------------------------------ wire
\* The raw "id" member of a response object (Option<&JsonRawValue>): absent,
\* a JSON number in the range of u64, a JSON string holding the digits of a
\* number, or a negative JSON number.
NoRawId == [t |-> "absent", v |-> U64Zero]
NumRawId(i) == [t |-> "num", v |-> i]
StrRawId(i) == [t |-> "str", v |-> i]
NegRawId(i) == [t |-> "neg", v |-> i]

\* The "result" member of a response object: absent, a value of the caller's
\* type R, or a value that is not an R.
NoResult == [present |-> FALSE, typed |-> FALSE, v |-> 0]
BadResult == [present |-> TRUE, typed |-> FALSE, v |-> 0]
Res(v) == [present |-> TRUE, typed |-> TRUE, v |-> v]

\* The "error" member of a response object: absent, an object that is not
\* {code, message, data?}, or a well formed error object.
NoErr == [present |-> FALSE, wf |-> FALSE, code |-> 0, message |-> "", data |-> ""]
MalformedErr == [present |-> TRUE, wf |-> FALSE, code |-> 0, message |-> "", data |-> ""]
ErrObjs ==
    { [present |-> TRUE, wf |-> TRUE, code |-> -32600,
       message |-> "Invalid Request", data |-> ""],
      [present |-> TRUE, wf |-> TRUE, code |-> -32601,
       message |-> "Method not found", data |-> "detail"] }

\* A response body: a JSON object, a JSON array of objects, or bytes that
\* are neither.
Obj(id, result, error) ==
    [k |-> "obj", id |-> id, result |-> result, error |-> error, elems |-> <<>>]
Arr(elems) ==
    [k |-> "arr", id |-> NoRawId, result |-> NoResult, error |-> NoErr, elems |-> elems]
Junk == [k |-> "junk", id |-> NoRawId, result |-> NoResult, error |-> NoErr, elems |-> <<>>]

\* The values of the caller's result type R, and R::default().
RDefault == 0
Values == {RDefault, 1, 2}

\* The failure of one deserialization, named by the type it was decoding to.
DecodeFailure(what) == [what |-> what]

\* serde_json::from_slice::<JsonRpcResponse<R>>(&body): a success envelope is
\* an object with a result member that is an R; its id member is optional.
DecodeResponse(body) ==
    IF body.k = "obj" /\ body.result.present /\ body.result.typed
    THEN [ok |-> TRUE, id |-> body.id, result |-> body.result.v,
          failure |-> DecodeFailure("")]
    ELSE [ok |-> FALSE, id |-> NoRawId, result |-> RDefault,
          failure |-> DecodeFailure("JsonRpcResponse")]

\* serde_json::from_slice::<Vec<JsonRpcResponse<R>>>(&body): an array whose
\* every element is a success envelope.
DecodeResponseVec(body) ==
    IF body.k = "arr" /\ \A i \in 1..Len(body.elems) : DecodeResponse(body.elems[i]).ok
    THEN [ok |-> TRUE,
          rps |-> [i \in 1..Len(body.elems) |-> DecodeResponse(body.elems[i])],
          failure |-> DecodeFailure("")]
    ELSE [ok |-> FALSE, rps |-> <<>>,
          failure |-> DecodeFailure("Vec<JsonRpcResponse>")]

\* serde_json::from_slice::<JsonRpcErrorAlloc>(&body): an error envelope is an
\* object with a well formed error member.
DecodeErrorAlloc(body) ==
    IF body.k = "obj" /\ body.error.present /\ body.error.wf
    THEN [ok |-> TRUE, id |-> body.id, error |-> body.error,
          failure |-> DecodeFailure("")]
    ELSE [ok |-> FALSE, id |-> NoRawId, error |-> NoErr,
          failure |-> DecodeFailure("JsonRpcErrorAlloc")]

\* serde_json::from_str::<u64>(raw): only a JSON number in the range of u64
\* is a u64; a string of digits or a negative number is not.
FromStrU64(raw) ==
    IF raw.t = "num"
    THEN [ok |-> TRUE, id |-> raw.v, failure |-> DecodeFailure("")]
    ELSE [ok |-> FALSE, id |-> U64Zero, failure |-> DecodeFailure("u64")]

\* ------------------------------------------------------------------ results
\* What a call returns: Ok(value), Ok(values) or Err(Error::tag(..)).
\* Error::ParseError carries a serde failure, Error::Request the error envelope.
Ok(value, values) ==
    [tag |-> "Ok", value |-> value, values |-> values, err |-> NoErr,
     errid |-> NoRawId, failure |-> DecodeFailure("")]
Err(tag) ==
    [tag |-> tag, value |-> RDefault, values |-> <<>>, err |-> NoErr,
     errid |-> NoRawId, failure |-> DecodeFailure("")]
ErrParseError(failure) ==
    [tag |-> "ParseError", value |-> RDefault, values |-> <<>>, err |-> NoErr,
     errid |-> NoRawId, failure |-> failure]
ErrRequest(e) ==
    [tag |-> "Request", value |-> RDefault, values |-> <<>>, err |-> e.error,
     errid |-> e.id, failure |-> DecodeFailure("")]
NoOutcome == Err("none")

\* ------------------------------------------------------------------ client.rs
\* Mutant of parse_request_id: an id that is not a u64 is reported like a
\* missing id.
parse_request_id_unattributable(raw) ==
    IF raw.t = "absent" \/ ~FromStrU64(raw).ok
    THEN [ok |-> FALSE, id |-> U64Zero, error |-> Err("InvalidRequestId")]
    ELSE [ok |-> TRUE, id |-> FromStrU64(raw).id, error |-> NoOutcome]

\* parse_request_id: no id is Error::InvalidRequestId; an id that is not a
\* u64 is Error::ParseError with serde's failure.
parse_request_id(raw) ==
    IF raw.t = "absent"
    THEN [ok |-> FALSE, id |-> U64Zero, error |-> Err("InvalidRequestId")]
    ELSE LET parsed == FromStrU64(raw)
         IN  IF parsed.ok
             THEN [ok |-> TRUE, id |-> parsed.id, error |-> NoOutcome]
             ELSE [ok |-> FALSE, id |-> U64Zero, error |-> ErrParseError(parsed.failure)]

\* Mutant of request_decode: Error::ParseError keeps the failure of the first
\* decoding.
request_decode_first(body) ==
    LET response == DecodeResponse(body)
    IN  IF response.ok
        THEN [ok |-> TRUE, response |-> response, error |-> NoOutcome]
        ELSE LET err == DecodeErrorAlloc(body)
             IN  [ok |-> FALSE, response |-> response,
                  error |-> IF err.ok THEN ErrRequest(err)
                            ELSE ErrParseError(response.failure)]

\* Mutant of request_decode: the error envelope is tried first.
request_decode_error_first(body) ==
    LET err == DecodeErrorAlloc(body)
        response == DecodeResponse(body)
    IN  IF err.ok
        THEN [ok |-> FALSE, response |-> response, error |-> ErrRequest(err)]
        ELSE IF response.ok
        THEN [ok |-> TRUE, response |-> response, error |-> NoOutcome]
        ELSE [ok |-> FALSE, response |-> response, error |-> ErrParseError(err.failure)]

\* HttpClient::request, the match on the decoded body: the success envelope,
\* or else the error envelope returned as Error::Request, or else
\* Error::ParseError with the failure of the JsonRpcErrorAlloc decoding.
request_decode(body) ==
    LET response == DecodeResponse(body)
    IN  IF response.ok
        THEN [ok |-> TRUE, response |-> response, error |-> NoOutcome]
        ELSE LET err == DecodeErrorAlloc(body)
             IN  [ok |-> FALSE, response |-> response,
                  error |-> IF err.ok THEN ErrRequest(err)
                            ELSE ErrParseError(err.failure)]

\* Mutant of request_correlate: the result is returned whatever id the
\* response carries.
request_correlate_unchecked(id, response) ==
    LET response_id == parse_request_id(response.id)
    IN  IF ~response_id.ok THEN response_id.error
        ELSE Ok(response.result, <<>>)

\* HttpClient::request, the id check on a decoded success envelope.
request_correlate(id, response) ==
    LET response_id == parse_request_id(response.id)
    IN  IF ~response_id.ok THEN response_id.error
        ELSE IF response_id.id = id THEN Ok(response.result, <<>>)
        ELSE Err("InvalidRequestId")

\* Mutant of request_result: the id of an error envelope is checked like the
\* id of a success envelope.
request_result_guarded(id, body) ==
    LET decoded == request_decode(body)
    IN  IF decoded.ok THEN request_correlate(id, decoded.response)
        ELSE IF decoded.error.tag = "Request"
                /\ ( ~parse_request_id(decoded.error.errid).ok
                     \/ parse_request_id(decoded.error.errid).id # id )
        THEN Err("InvalidRequestId")
        ELSE decoded.error

\* HttpClient::request from the body the transport returned to the result.
request_result(id, body) ==
    LET decoded == request_decode(body)
    IN  IF decoded.ok THEN request_correlate(id, decoded.response)
        ELSE decoded.error

\* Mutant of batch_decode: the elements of a reply array that are no success
\* envelopes are dropped and the others are decoded.
batch_decode_lenient(body) ==
    LET kept == IF body.k = "arr"
                THEN Arr(SelectSeq(body.elems, LAMBDA e : DecodeResponse(e).ok))
                ELSE body
        rps == DecodeResponseVec(kept)
    IN  IF rps.ok
        THEN [ok |-> TRUE, rps |-> rps.rps, error |-> NoOutcome]
        ELSE LET err == DecodeErrorAlloc(body)
             IN  [ok |-> FALSE, rps |-> <<>>,
                  error |-> IF err.ok THEN ErrRequest(err)
                            ELSE ErrParseError(err.failure)]

\* HttpClient::batch_request, the match on the decoded body.
batch_decode(body) ==
    LET rps == DecodeResponseVec(body)
    IN  IF rps.ok
        THEN [ok |-> TRUE, rps |-> rps.rps, error |-> NoOutcome]
        ELSE LET err == DecodeErrorAlloc(body)
             IN  [ok |-> FALSE, rps |-> <<>>,
                  error |-> IF err.ok THEN ErrRequest(err)
                            ELSE ErrParseError(err.failure)]

\* HttpClient::batch_request, the loop over the decoded envelopes from the
\* i-th on: request_set maps an id to its 0-based position, responses starts
\* as vec![R::default(); ordered_requests.len()].
RECURSIVE batch_fill(_, _, _, _)
batch_fill(rps, i, request_set, responses) ==
    IF i > Len(rps) THEN Ok(RDefault, responses)
    ELSE LET response_id == parse_request_id(rps[i].id)
         IN  IF ~response_id.ok THEN response_id.error
             ELSE IF response_id.id \notin DOMAIN request_set
             THEN Err("InvalidRequestId")
             ELSE batch_fill(rps, i + 1, request_set,
                      [responses EXCEPT ![request_set[response_id.id] + 1] = rps[i].result])

\* Mutant of batch_correlate: the i-th envelope of the reply is taken for the
\* i-th entry of the batch, once every id is known.
batch_correlate_zip(ordered_requests, request_set, rps) ==
    LET checked == batch_fill(rps, 1, request_set,
                       [i \in 1..Len(ordered_requests) |-> RDefault])
    IN  IF checked.tag # "Ok" THEN checked
        ELSE Ok(RDefault, [i \in 1..Len(ordered_requests) |->
                              IF i <= Len(rps) THEN rps[i].result ELSE RDefault])

\* Mutant of batch_correlate: an envelope with an unknown id is skipped.
RECURSIVE batch_fill_skip(_, _, _, _)
batch_fill_skip(rps, i, request_set, responses) ==
    IF i > Len(rps) THEN Ok(RDefault, responses)
    ELSE LET response_id == parse_request_id(rps[i].id)
         IN  IF ~response_id.ok THEN response_id.error
             ELSE IF response_id.id \notin DOMAIN request_set
             THEN batch_fill_skip(rps, i + 1, request_set, responses)
             ELSE batch_fill_skip(rps, i + 1, request_set,
                      [responses EXCEPT ![request_set[response_id.id] + 1] = rps[i].result])
batch_correlate_skip(ordered_requests, request_set, rps) ==
    batch_fill_skip(rps, 1, request_set, [i \in 1..Len(ordered_requests) |-> RDefault])

\* Mutant of batch_correlate: a reply with fewer envelopes than the batch has
\* entries is refused.
batch_correlate_complete(ordered_requests, request_set, rps) ==
    IF Len(rps) < Len(ordered_requests) THEN Err("InvalidRequestId")
    ELSE batch_fill(rps, 1, request_set, [i \in 1..Len(ordered_requests) |-> RDefault])

\* Mutant of batch_correlate: of the envelopes with one id the first is kept.
batch_correlate_first(ordered_requests, request_set, rps) ==
    batch_fill([j \in 1..Len(rps) |-> rps[Len(rps) + 1 - j]], 1, request_set,
               [i \in 1..Len(ordered_requests) |-> RDefault])

\* HttpClient::batch_request, the correlation of the decoded envelopes.
batch_correlate(ordered_requests, request_set, rps) ==
    batch_fill(rps, 1, request_set, [i \in 1..Len(ordered_requests) |-> RDefault])

\* HttpClient::batch_request from the body the transport returned to the result.
batch_result(ordered_requests, request_set, body) ==
    LET decoded == batch_decode(body)
    IN  IF decoded.ok THEN batch_correlate(ordered_requests, request_set, decoded.rps)
        ELSE decoded.error

\* ------------------------------------------------------------------ state
VARIABLES
    built,       \* whether HttpClientBuilder::build has returned the client
    request_id,  \* HttpClient.request_id, the AtomicU64 counter
    call,        \* per caller: the call it is in and that call's locals
    allocs,      \* history: every id handed out by fetch_add, in order
    ncalls,      \* history: the number of calls started
    issued,      \* history: the ids asked for by the calls started so far
    last,        \* history: the last operation on the counter
    completed    \* history: the call that ended in the last step

vars == <<built, request_id, call, allocs, ncalls, issued, last, completed>>

\* No client, hence no counter, before build.
NoCounter == <<>>

\* A caller that is in no call.
IdleCall ==
    [pc |-> "idle", kind |-> "none", no |-> 0, id |-> U64Zero, n |-> 0,
     ordered_requests |-> <<>>, request_set |-> <<>>, sends |-> 0,
     outcome |-> NoOutcome]

NoLast == [op |-> "none", before |-> NoCounter, ret |-> NoCounter]
NoCompleted ==
    [caller |-> 0, kind |-> "none", id |-> U64Zero, ordered_requests |-> <<>>,
     request_set |-> <<>>, replied |-> FALSE, body |-> Junk, outcome |-> NoOutcome]

\* The call of caller c returns outcome; body is what the transport gave it,
\* when it gave a body.
Completed(c, rec, replied, body, outcome) ==
    [caller |-> c, kind |-> rec.kind, id |-> rec.id,
     ordered_requests |-> rec.ordered_requests, request_set |-> rec.request_set,
     replied |-> replied, body |-> body, outcome |-> outcome]

\* serde_json::to_string failed: Error::ParseError before anything is sent.
SerializeFailure == ErrParseError(DecodeFailure("to_string"))

\* ------------------------------------------------------------------ replies
\* What the server may answer.  An id the client never allocated:
Foreign == U64Of(99)

Range(f) == {f[i] : i \in DOMAIN f}
SeqsUpTo(S, k) == UNION {[1..m -> S] : m \in 0..k}

\* Bodies answering a single call with the given id.
RequestBodies(id) ==
    { Obj(r, res, e) :
        r \in {NoRawId, NumRawId(id), NumRawId(Foreign), StrRawId(id), NegRawId(id)},
        res \in {NoResult, BadResult} \cup {Res(v) : v \in Values},
        e \in {NoErr, MalformedErr} \cup ErrObjs }
    \cup {Junk, Arr(<<>>)}

\* Result values the server puts in a batch reply.
ReplyValues == Values \ {RDefault}

\* The objects of a batch reply to the calls with the given ids: success
\* envelopes for the allocated ids and for a foreign id, envelopes with no id
\* or an id that is no u64, and an error envelope.
BatchElems(ids) ==
    LET first == IF Len(ids) > 0 THEN ids[1] ELSE Foreign
    IN  { Obj(NumRawId(i), Res(v), NoErr) : i \in Range(ids) \cup {Foreign}, v \in ReplyValues }
        \cup { Obj(NoRawId, Res(1), NoErr), Obj(StrRawId(first), Res(1), NoErr),
               Obj(NumRawId(first), NoResult, CHOOSE e \in ErrObjs : e.code = -32600) }

\* Bodies answering a batch: arrays of up to one object more than the batch,
\* a single error envelope, and bytes that are no JSON.
BatchBodies(ids) ==
    { Arr(elems) : elems \in SeqsUpTo(BatchElems(ids), Len(ids) + 1) }
    \cup { Obj(r, NoResult, e) : r \in {NoRawId, NumRawId(Foreign)}, e \in ErrObjs }
    \cup {Junk}

\* ------------------------------------------------------------------ actions
Init ==
    /\ built = FALSE
    /\ request_id = NoCounter
    /\ call = [c \in Callers |-> IdleCall]
    /\ allocs = <<>>
    /\ ncalls = 0
    /\ issued = 0
    /\ last = NoLast
    /\ completed = NoCompleted

\* HttpClientBuilder::build: HttpTransportClient::new fails with
\* Error::TransportError, or the client is returned with its counter at 0.
build(ok) ==
    /\ ~built
    /\ IF ok
       THEN /\ built' = TRUE
            /\ request_id' = request_id_new
            /\ last' = [op |-> "build", before |-> NoCounter, ret |-> NoCounter]
       ELSE /\ UNCHANGED <<built, request_id>>
            /\ last' = [op |-> "build_failed", before |-> NoCounter, ret |-> NoCounter]
    /\ completed' = NoCompleted
    /\ UNCHANGED <<call, allocs, ncalls, issued>>

\* Caller c is suspended in the await of the transport, in a call of that kind.
Awaiting(c, kind) == call[c].pc = "sent" /\ call[c].kind = kind

CanStart(c) == built /\ call[c].pc = "idle" /\ ncalls < MaxCalls

\* Mutant of notification: an id is taken from the counter, as request does.
notification_with_id(c, ser_ok) ==
    /\ CanStart(c)
    /\ ncalls' = ncalls + 1
    /\ LET fetched == fetch_add(request_id)
           rec == [IdleCall EXCEPT !.kind = "notification", !.no = ncalls + 1]
       IN  /\ request_id' = fetched.new
           /\ last' = [op |-> "fetch_add", before |-> request_id, ret |-> fetched.ret]
           /\ IF ser_ok
              THEN /\ call' = [call EXCEPT ![c] = [rec EXCEPT !.pc = "sent", !.sends = 1]]
                   /\ completed' = NoCompleted
              ELSE /\ call' = [call EXCEPT ![c] =
                           [rec EXCEPT !.pc = "done", !.outcome = SerializeFailure]]
                   /\ completed' = Completed(c, rec, FALSE, Junk, SerializeFailure)
    /\ UNCHANGED <<built, allocs, issued>>

\* HttpClient::notification up to the await of transport.send.
notification(c, ser_ok) ==
    /\ CanStart(c)
    /\ ncalls' = ncalls + 1
    /\ LET rec == [IdleCall EXCEPT !.kind = "notification", !.no = ncalls + 1]
       IN  IF ser_ok
           THEN /\ call' = [call EXCEPT ![c] = [rec EXCEPT !.pc = "sent", !.sends = 1]]
                /\ completed' = NoCompleted
           ELSE /\ call' = [call EXCEPT ![c] =
                        [rec EXCEPT !.pc = "done", !.outcome = SerializeFailure]]
                /\ completed' = Completed(c, rec, FALSE, Junk, SerializeFailure)
    /\ UNCHANGED <<built, request_id, allocs, issued, last>>

\* Mutant of request: the id is taken from the counter once the frame has
\* been serialized, so a request that fails to serialize consumes none.
request_serialize_first(c, ser_ok) ==
    /\ CanStart(c)
    /\ ncalls' = ncalls + 1
    /\ LET fetched == fetch_add(request_id)
           id == fetched.ret
           rec == [IdleCall EXCEPT !.kind = "request", !.no = ncalls + 1, !.id = id]
           unsent == [IdleCall EXCEPT !.kind = "request", !.no = ncalls + 1]
       IN  IF ser_ok
           THEN /\ request_id' = fetched.new
                /\ last' = [op |-> "fetch_add", before |-> request_id, ret |-> id]
                /\ allocs' = Append(allocs,
                       [id |-> id, caller |-> c, no |-> ncalls + 1, pos |-> 0])
                /\ call' = [call EXCEPT ![c] = [rec EXCEPT !.pc = "sent", !.sends = 1]]
                /\ completed' = NoCompleted
           ELSE /\ call' = [call EXCEPT ![c] =
                        [unsent EXCEPT !.pc = "done", !.outcome = SerializeFailure]]
                /\ completed' = Completed(c, unsent, FALSE, Junk, SerializeFailure)
                /\ UNCHANGED <<request_id, allocs, last>>
    /\ issued' = issued + 1
    /\ UNCHANGED built

\* HttpClient::request up to the await of transport.send_and_read_body.
request(c, ser_ok) ==
    /\ CanStart(c)
    /\ ncalls' = ncalls + 1
    /\ LET fetched == fetch_add(request_id)
           id == fetched.ret
           rec == [IdleCall EXCEPT !.kind = "request", !.no = ncalls + 1, !.id = id]
       IN  /\ request_id' = fetched.new
           /\ last' = [op |-> "fetch_add", before |-> request_id, ret |-> id]
           /\ allocs' = Append(allocs, [id |-> id, caller |-> c, no |-> ncalls + 1, pos |-> 0])
           /\ IF ser_ok
              THEN /\ call' = [call EXCEPT ![c] = [rec EXCEPT !.pc = "sent", !.sends = 1]]
                   /\ completed' = NoCompleted
              ELSE /\ call' = [call EXCEPT ![c] =
                           [rec EXCEPT !.pc = "done", !.outcome = SerializeFailure]]
                   /\ completed' = Completed(c, rec, FALSE, Junk, SerializeFailure)
    /\ issued' = issued + 1
    /\ UNCHANGED built

\* HttpClient::batch_request entered with a batch of n entries: the three
\* empty collections.
batch_request(c, n) ==
    /\ CanStart(c)
    /\ ncalls' = ncalls + 1
    /\ call' = [call EXCEPT ![c] =
           [IdleCall EXCEPT !.pc = "alloc", !.kind = "batch", !.no = ncalls + 1, !.n = n]]
    /\ completed' = NoCompleted
    /\ issued' = issued + n
    /\ UNCHANGED <<built, request_id, allocs, last>>

\* Mutant of batch_request_entry: the position of an entry is taken to be
\* the distance of its id from the first id of the batch.
batch_request_entry_offset(c) ==
    /\ call[c].pc = "alloc"
    /\ Len(call[c].ordered_requests) < call[c].n
    /\ LET fetched == fetch_add(request_id)
           id == fetched.ret
           pos == IF call[c].ordered_requests = <<>> THEN 0
                  ELSE id[4] - call[c].ordered_requests[1][4]
       IN  /\ request_id' = fetched.new
           /\ last' = [op |-> "fetch_add", before |-> request_id, ret |-> id]
           /\ allocs' = Append(allocs, [id |-> id, caller |-> c, no |-> call[c].no, pos |-> pos])
           /\ call' = [call EXCEPT ![c] =
                  [@ EXCEPT !.ordered_requests = Append(@, id),
                            !.request_set = (id :> pos) @@ @]]
    /\ completed' = NoCompleted
    /\ UNCHANGED <<built, ncalls, issued>>

\* One turn of the loop of batch_request: the id of the entry at position
\* pos = ordered_requests.len().
batch_request_entry(c) ==
    /\ call[c].pc = "alloc"
    /\ Len(call[c].ordered_requests) < call[c].n
    /\ LET fetched == fetch_add(request_id)
           id == fetched.ret
           pos == Len(call[c].ordered_requests)
       IN  /\ request_id' = fetched.new
           /\ last' = [op |-> "fetch_add", before |-> request_id, ret |-> id]
           /\ allocs' = Append(allocs, [id |-> id, caller |-> c, no |-> call[c].no, pos |-> pos])
           /\ call' = [call EXCEPT ![c] =
                  [@ EXCEPT !.ordered_requests = Append(@, id),
                            !.request_set = (id :> pos) @@ @]]
    /\ completed' = NoCompleted
    /\ UNCHANGED <<built, ncalls, issued>>

\* batch_request after the loop, up to the await of send_and_read_body.
batch_request_send(c, ser_ok) ==
    /\ call[c].pc = "alloc"
    /\ Len(call[c].ordered_requests) = call[c].n
    /\ IF ser_ok
       THEN /\ call' = [call EXCEPT ![c] = [@ EXCEPT !.pc = "sent", !.sends = 1]]
            /\ completed' = NoCompleted
       ELSE /\ call' = [call EXCEPT ![c] =
                    [@ EXCEPT !.pc = "done", !.outcome = SerializeFailure]]
            /\ completed' = Completed(c, call[c], FALSE, Junk, SerializeFailure)
    /\ UNCHANGED <<built, request_id, allocs, ncalls, issued, last>>

\* Mutant of transport_error: the first failure of the transport makes the
\* call send its frame again.
transport_error_retry(c) ==
    /\ call[c].pc = "sent"
    /\ IF call[c].sends < 2
       THEN /\ call' = [call EXCEPT ![c] = [@ EXCEPT !.sends = @ + 1]]
            /\ completed' = NoCompleted
       ELSE /\ call' = [call EXCEPT ![c] =
                    [@ EXCEPT !.pc = "done", !.outcome = Err("TransportError")]]
            /\ completed' = Completed(c, call[c], FALSE, Junk, Err("TransportError"))
    /\ UNCHANGED <<built, request_id, allocs, ncalls, issued, last>>

\* The transport fails: every call maps it to Error::TransportError.
transport_error(c) ==
    /\ call[c].pc = "sent"
    /\ call' = [call EXCEPT ![c] = [@ EXCEPT !.pc = "done", !.outcome = Err("TransportError")]]
    /\ completed' = Completed(c, call[c], FALSE, Junk, Err("TransportError"))
    /\ UNCHANGED <<built, request_id, allocs, ncalls, issued, last>>

\* transport.send returned Ok(()): the notification returns Ok(()).
notification_sent(c) ==
    /\ Awaiting(c, "notification")
    /\ call' = [call EXCEPT ![c] = [@ EXCEPT !.pc = "done", !.outcome = Ok(RDefault, <<>>)]]
    /\ completed' = Completed(c, call[c], FALSE, Junk, Ok(RDefault, <<>>))
    /\ UNCHANGED <<built, request_id, allocs, ncalls, issued, last>>

\* Mutant of request_body: the response id is compared with the id the
\* client allocated last, read from the shared counter's history.
request_body_shared(c, body) ==
    /\ Awaiting(c, "request")
    /\ LET outcome == request_result(last.ret, body)
       IN  /\ call' = [call EXCEPT ![c] = [@ EXCEPT !.pc = "done", !.outcome = outcome]]
           /\ completed' = Completed(c, call[c], TRUE, body, outcome)
    /\ UNCHANGED <<built, request_id, allocs, ncalls, issued, last>>

\* Mutant of request_body: a reply that does not give the result is
\* remembered and the call waits for another reply.
request_body_retry(c, body) ==
    /\ Awaiting(c, "request")
    /\ LET outcome == request_result(call[c].id, body)
       IN  /\ call' = [call EXCEPT ![c] =
                   [@ EXCEPT !.pc = IF outcome.tag = "Ok" THEN "done" ELSE "sent",
                             !.outcome = outcome]]
           /\ completed' = Completed(c, call[c], TRUE, body, outcome)
    /\ UNCHANGED <<built, request_id, allocs, ncalls, issued, last>>

\* send_and_read_body returned body to request.
request_body(c, body) ==
    /\ Awaiting(c, "request")
    /\ LET outcome == request_result(call[c].id, body)
       IN  /\ call' = [call EXCEPT ![c] = [@ EXCEPT !.pc = "done", !.outcome = outcome]]
           /\ completed' = Completed(c, call[c], TRUE, body, outcome)
    /\ UNCHANGED <<built, request_id, allocs, ncalls, issued, last>>

\* Mutant of batch_request_body: a reply that does not give the results is
\* remembered and the batch waits for another reply.
batch_request_body_retry(c, body) ==
    /\ Awaiting(c, "batch")
    /\ LET outcome == batch_result(call[c].ordered_requests, call[c].request_set, body)
       IN  /\ call' = [call EXCEPT ![c] =
                   [@ EXCEPT !.pc = IF outcome.tag = "Ok" THEN "done" ELSE "sent",
                             !.outcome = outcome]]
           /\ completed' = Completed(c, call[c], TRUE, body, outcome)
    /\ UNCHANGED <<built, request_id, allocs, ncalls, issued, last>>

\* send_and_read_body returned body to batch_request.
batch_request_body(c, body) ==
    /\ Awaiting(c, "batch")
    /\ LET outcome == batch_result(call[c].ordered_requests, call[c].request_set, body)
       IN  /\ call' = [call EXCEPT ![c] = [@ EXCEPT !.pc = "done", !.outcome = outcome]]
           /\ completed' = Completed(c, call[c], TRUE, body, outcome)
    /\ UNCHANGED <<built, request_id, allocs, ncalls, issued, last>>

\* The caller takes the result; it may start another call.
call_return(c) ==
    /\ call[c].pc = "done"
    /\ call' = [call EXCEPT ![c] = IdleCall]
    /\ completed' = NoCompleted
    /\ UNCHANGED <<built, request_id, allocs, ncalls, issued, last>>

\* The answers the concurrent callers get: one body of each kind.
QuickRequestBodies(id) ==
    { Obj(NumRawId(id), Res(1), NoErr), Obj(NumRawId(Foreign), Res(1), NoErr),
      Obj(NoRawId, NoResult, CHOOSE e \in ErrObjs : e.code = -32600), Junk }

\* The reply to a batch with one envelope per id, the i-th with result
\* 1 + (i % 2), in submission order when fwd and in reverse order otherwise.
OrderedReply(ids, fwd) ==
    Arr([j \in 1..Len(ids) |->
            LET i == IF fwd THEN j ELSE Len(ids) + 1 - j
            IN  Obj(NumRawId(ids[i]), Res(1 + (i % 2)), NoErr)])

QuickBatchBodies(ids) ==
    { OrderedReply(ids, TRUE), OrderedReply(ids, FALSE), Arr(<<>>),
      Arr(<<Obj(NumRawId(Foreign), Res(1), NoErr)>>),
      Obj(NoRawId, NoResult, CHOOSE e \in ErrObjs : e.code = -32600), Junk }

\* Concurrent callers, each answer one of the quick bodies.
Next ==
    \/ \E ok \in BOOLEAN : build(ok)
    \/ \E c \in Callers, ser_ok \in BOOLEAN : notification(c, ser_ok)
    \/ \E c \in Callers, ser_ok \in BOOLEAN : request(c, ser_ok)
    \/ \E c \in Callers, n \in 0..MaxBatch : batch_request(c, n)
    \/ \E c \in Callers : batch_request_entry(c)
    \/ \E c \in Callers, ser_ok \in BOOLEAN : batch_request_send(c, ser_ok)
    \/ \E c \in Callers : transport_error(c)
    \/ \E c \in Callers : notification_sent(c)
    \/ \E c \in Callers :
           /\ Awaiting(c, "request")
           /\ \E body \in QuickRequestBodies(call[c].id) : request_body(c, body)
    \/ \E c \in Callers :
           /\ Awaiting(c, "batch")
           /\ \E body \in QuickBatchBodies(call[c].ordered_requests) :
                  batch_request_body(c, body)
    \/ \E c \in Callers : call_return(c)

Spec == Init /\ [][Next]_vars

\* The transport answers the call c is waiting on: send or
\* send_and_read_body returns a failure or a body to the awaiting call.
Respond(c) ==
    \/ transport_error(c)
    \/ notification_sent(c)
    \/ /\ Awaiting(c, "request")
       /\ \E body \in QuickRequestBodies(call[c].id) : request_body(c, body)
    \/ /\ Awaiting(c, "batch")
       /\ \E body \in QuickBatchBodies(call[c].ordered_requests) :
              batch_request_body(c, body)

\* The answers of the transport that always answers: the reply that matches
\* the call, a reply with a foreign id, a body that is no JSON-RPC reply.
LiveRequestBodies(id) == { Obj(NumRawId(id), Res(1), NoErr), Junk }

LiveBatchBodies(ids) ==
    { OrderedReply(ids, TRUE), Arr(<<Obj(NumRawId(Foreign), Res(1), NoErr)>>), Junk }

\* The transport answers the call c is waiting on, with one of these answers.
RespondLive(c) ==
    \/ transport_error(c)
    \/ notification_sent(c)
    \/ /\ Awaiting(c, "request")
       /\ \E body \in LiveRequestBodies(call[c].id) : request_body(c, body)
    \/ /\ Awaiting(c, "batch")
       /\ \E body \in LiveBatchBodies(call[c].ordered_requests) :
              batch_request_body(c, body)

\* The concurrent callers, their batches empty or of MaxBatch entries.
NextLive ==
    \/ \E ok \in BOOLEAN : build(ok)
    \/ \E c \in Callers, ser_ok \in BOOLEAN : notification(c, ser_ok)
    \/ \E c \in Callers, ser_ok \in BOOLEAN : request(c, ser_ok)
    \/ \E c \in Callers, n \in {0, MaxBatch} : batch_request(c, n)
    \/ \E c \in Callers : batch_request_entry(c)
    \/ \E c \in Callers, ser_ok \in BOOLEAN : batch_request_send(c, ser_ok)
    \/ \E c \in Callers : RespondLive(c)
    \/ \E c \in Callers : call_return(c)

\* The concurrent callers over a transport that answers every send: a call
\* that awaits the transport is resumed once the transport has returned.
SpecLive == Init /\ [][NextLive]_vars /\ \A c \in Callers : WF_vars(RespondLive(c))

\* The caller drops the future of a call suspended at the await of the
\* transport: the call ends there, none of its remaining code runs.
abandon(c) ==
    /\ call[c].pc = "sent"
    /\ call' = [call EXCEPT ![c] = IdleCall]
    /\ completed' = Completed(c, call[c], FALSE, Junk, Err("abandoned"))
    /\ UNCHANGED <<built, request_id, allocs, ncalls, issued, last>>

\* The concurrent callers, each free to abandon the call it has in flight.
NextAbandon ==
    \/ \E ok \in BOOLEAN : build(ok)
    \/ \E c \in Callers, ser_ok \in BOOLEAN : notification(c, ser_ok)
    \/ \E c \in Callers, ser_ok \in BOOLEAN : request(c, ser_ok)
    \/ \E c \in Callers, n \in 0..MaxBatch : batch_request(c, n)
    \/ \E c \in Callers : batch_request_entry(c)
    \/ \E c \in Callers, ser_ok \in BOOLEAN : batch_request_send(c, ser_ok)
    \/ \E c \in Callers : Respond(c)
    \/ \E c \in Callers : call_return(c)
    \/ \E c \in Callers : abandon(c)

SpecAbandon == Init /\ [][NextAbandon]_vars

\* One caller, every answer of RequestBodies and BatchBodies.
NextReply ==
    \/ \E ok \in BOOLEAN : build(ok)
    \/ \E ser_ok \in BOOLEAN : ncalls < MaxReplyCalls /\ notification(1, ser_ok)
    \/ \E ser_ok \in BOOLEAN : ncalls < MaxReplyCalls /\ request(1, ser_ok)
    \/ \E n \in 0..MaxBatch : ncalls < MaxReplyCalls /\ batch_request(1, n)
    \/ batch_request_entry(1)
    \/ \E ser_ok \in BOOLEAN : batch_request_send(1, ser_ok)
    \/ transport_error(1)
    \/ notification_sent(1)
    \/ /\ Awaiting(1, "request")
       /\ \E body \in RequestBodies(call[1].id) : request_body(1, body)
    \/ /\ Awaiting(1, "batch")
       /\ \E body \in BatchBodies(call[1].ordered_requests) : batch_request_body(1, body)
    \/ call_return(1)

SpecReply == Init /\ [][NextReply]_vars

\* A client that has been in use: its counter is near a limb boundary or
\* near u64::MAX.
AgedCounters ==
    { U64Max, <<LimbMax, LimbMax, LimbMax, LimbMax - 1>>,
      <<0, 0, 0, LimbMax>>, <<0, LimbMax, LimbMax, LimbMax>>,
      <<7, LimbMax, 0, LimbMax>> }

InitWrap ==
    /\ \/ built = FALSE /\ request_id = NoCounter
       \/ built = TRUE /\ request_id \in AgedCounters
    /\ call = [c \in Callers |-> IdleCall]
    /\ allocs = <<>>
    /\ ncalls = 0
    /\ issued = 0
    /\ last = NoLast
    /\ completed = NoCompleted

\* The calls of one caller on a fresh or on an aged client.
NextWrap ==
    \/ \E ok \in BOOLEAN : build(ok)
    \/ \E ser_ok \in BOOLEAN : notification(1, ser_ok)
    \/ \E ser_ok \in BOOLEAN : request(1, ser_ok)
    \/ \E n \in 0..MaxBatch : batch_request(1, n)
    \/ batch_request_entry(1)
    \/ \E ser_ok \in BOOLEAN : batch_request_send(1, ser_ok)
    \/ transport_error(1)
    \/ notification_sent(1)
    \/ /\ Awaiting(1, "request")
       /\ \E body \in QuickRequestBodies(call[1].id) : request_body(1, body)
    \/ /\ Awaiting(1, "batch")
       /\ \E body \in QuickBatchBodies(call[1].ordered_requests) :
              batch_request_body(1, body)
    \/ call_return(1)

SpecWrap == InitWrap /\ [][NextWrap]_vars

\* ------------------------------------------------------------------ claims
\* Shapes of a body, read off its members.
SuccessEnvelope(o) == o.k = "obj" /\ o.result.present /\ o.result.typed
ErrorEnvelope(o) == o.k = "obj" /\ o.error.present /\ o.error.wf
SuccessArray(b) == b.k = "arr" /\ \A j \in 1..Len(b.elems) : SuccessEnvelope(b.elems[j])

\* b = a + 1 modulo 2^64, limb by limb: some limb k grows by one, the limbs
\* above it stay, the limbs below it go from LimbMax to 0; or every limb goes
\* from LimbMax to 0.
IsSuccessor(a, b) ==
    \/ \E k \in 1..Len(a) :
          /\ b[k] = a[k] + 1
          /\ a[k] < LimbMax
          /\ \A m \in 1..Len(a) : m < k => b[m] = a[m]
          /\ \A m \in 1..Len(a) : m > k => a[m] = LimbMax /\ b[m] = 0
    \/ /\ \A m \in 1..Len(a) : a[m] = LimbMax
       /\ \A m \in 1..Len(b) : b[m] = 0

\* A request that got a body from the transport has returned in the last step.
RequestReplied == completed.kind = "request" /\ completed.replied
\* A batch_request that got a body from the transport has returned.
BatchReplied == completed.kind = "batch" /\ completed.replied

\* C1: whatever the interleaving of the callers' request and batch_request
\* calls, no two id allocations of the client return the same id (fewer than
\* 2^64 allocations are made).
C1_UniqueIds ==
    \A i, j \in 1..Len(allocs) : i # j => allocs[i].id # allocs[j].id

\* C1 witness: the entries of one batch got their ids around an allocation
\* of the other caller.
C1_Witness ==
    \E i, j, k \in 1..Len(allocs) :
        /\ i < j /\ j < k
        /\ allocs[i].no = allocs[k].no
        /\ allocs[j].caller # allocs[i].caller

\* C2: build leaves the counter at 0; an allocation returns the counter's
\* value and advances the counter by exactly one modulo 2^64, so each id is
\* the successor modulo 2^64 of the id before it; at u64::MAX the allocation
\* returns u64::MAX and leaves the counter at 0.
C2_CounterAdvance ==
    /\ last.op = "build" => request_id = U64Zero
    /\ last.op = "fetch_add" =>
          /\ last.ret = last.before
          /\ IsSuccessor(last.before, request_id)
          /\ Len(allocs) > 0 /\ allocs[Len(allocs)].id = last.ret
          /\ last.before = U64Max => last.ret = U64Max /\ request_id = U64Zero
    /\ \A i \in 1..Len(allocs) : i > 1 => IsSuccessor(allocs[i - 1].id, allocs[i].id)

\* C2 witness: an allocation at u64::MAX has wrapped the counter, and the id
\* after it has been handed out.
C2_Witness ==
    /\ Len(allocs) >= 2
    /\ allocs[Len(allocs) - 1].id = U64Max
    /\ allocs[Len(allocs)].id = U64Zero
    /\ last.op = "fetch_add"

\* C3: when the body of a single call is a success envelope, request returns
\* its result exactly when the envelope's id is the number allocated for the
\* call; with no id or another number it returns Error::InvalidRequestId.
C3_SingleIdCheck ==
    (RequestReplied /\ SuccessEnvelope(completed.body)) =>
        LET b == completed.body
            out == completed.outcome
            same == b.id.t = "num" /\ b.id.v = completed.id
        IN  /\ out.tag = "Ok" <=> same
            /\ out.tag = "Ok" => out.value = b.result.v
            /\ (b.id.t = "absent" \/ (b.id.t = "num" /\ b.id.v # completed.id))
                  => out.tag = "InvalidRequestId"

\* C3 witness: a success envelope with another number as id was refused.
C3_Witness ==
    /\ RequestReplied /\ SuccessEnvelope(completed.body)
    /\ completed.body.id.t = "num" /\ completed.body.id.v # completed.id
    /\ completed.outcome.tag = "InvalidRequestId"

\* The reply array holds exactly one success envelope for each allocated id
\* and nothing else.
OnePerId(b, ids) ==
    /\ SuccessArray(b)
    /\ Len(b.elems) = Len(ids)
    /\ \A i \in 1..Len(ids) :
          Cardinality({j \in 1..Len(b.elems) : b.elems[j].id = NumRawId(ids[i])}) = 1

\* C4: for a reply with exactly one success envelope per allocated id, in
\* any order, batch_request returns at every position i the result of the
\* envelope whose id is the id of the i-th entry.
C4_BatchByPosition ==
    (BatchReplied /\ OnePerId(completed.body, completed.ordered_requests)) =>
        LET b == completed.body
            ids == completed.ordered_requests
            out == completed.outcome
        IN  /\ out.tag = "Ok"
            /\ Len(out.values) = Len(ids)
            /\ \A i \in 1..Len(ids) : \A j \in 1..Len(b.elems) :
                  b.elems[j].id = NumRawId(ids[i]) => out.values[i] = b.elems[j].result.v

\* C4 witness: a reply in another order than the batch, with different
\* results, was put back in the order of the batch.
C4_Witness ==
    /\ BatchReplied /\ OnePerId(completed.body, completed.ordered_requests)
    /\ Len(completed.ordered_requests) >= 2
    /\ completed.body.elems[1].id = NumRawId(completed.ordered_requests[2])
    /\ completed.body.elems[1].result.v # completed.body.elems[2].result.v
    /\ completed.outcome.tag = "Ok"
    /\ completed.outcome.values[2] = completed.body.elems[1].result.v

\* The reply is an array of success envelopes whose j-th carries a number
\* that is no allocated id, every envelope before it carrying an allocated
\* id, a foreign number or no id.
ForeignAt(b, ids, j) ==
    /\ SuccessArray(b)
    /\ j \in 1..Len(b.elems)
    /\ b.elems[j].id.t = "num" /\ b.elems[j].id.v \notin Range(ids)
    /\ \A m \in 1..Len(b.elems) : m < j => b.elems[m].id.t \in {"num", "absent"}

\* C5: an envelope of the reply whose id is a number that was not allocated
\* for the batch fails the whole batch with Error::InvalidRequestId, wherever
\* it stands in the reply and however many envelopes carry allocated ids.
C5_ForeignIdFailsBatch ==
    (BatchReplied /\ \E j \in 1..Len(completed.body.elems) :
                        ForeignAt(completed.body, completed.ordered_requests, j)) =>
        /\ completed.outcome.tag = "InvalidRequestId"
        /\ completed.outcome.values = <<>>

\* C5 witness: the foreign id stood last, after an envelope for every
\* allocated id.
C5_Witness ==
    /\ BatchReplied
    /\ Len(completed.ordered_requests) >= 2
    /\ Len(completed.body.elems) = Len(completed.ordered_requests) + 1
    /\ ForeignAt(completed.body, completed.ordered_requests, Len(completed.body.elems))
    /\ \A i \in 1..Len(completed.ordered_requests) :
          completed.body.elems[i].id = NumRawId(completed.ordered_requests[i])
    /\ completed.outcome.tag = "InvalidRequestId"


\* The id is present and is no u64.
Unparseable(raw) == raw.t \notin {"absent", "num"}

\* The reply is an array of success envelopes whose j-th carries an id that
\* is no u64, every envelope before it carrying an allocated id.
UnparseableAt(b, ids, j) ==
    /\ SuccessArray(b)
    /\ j \in 1..Len(b.elems)
    /\ Unparseable(b.elems[j].id)
    /\ \A m \in 1..Len(b.elems) :
          m < j => b.elems[m].id.t = "num" /\ b.elems[m].id.v \in Range(ids)

UndecodableSingle(b) == ~SuccessEnvelope(b) /\ ~ErrorEnvelope(b)
UndecodableBatch(b) == ~SuccessArray(b) /\ ~ErrorEnvelope(b)

C8_ProtocolError ==
    /\ (RequestReplied /\ ~SuccessEnvelope(completed.body)
            /\ ErrorEnvelope(completed.body))
          => /\ completed.outcome.tag = "Request"
             /\ completed.outcome.err.code = completed.body.error.code
             /\ completed.outcome.err.message = completed.body.error.message
             /\ completed.outcome.err.data = completed.body.error.data
    /\ (RequestReplied /\ SuccessEnvelope(completed.body))
          => completed.outcome.tag # "Request"

\* C8 witness: the envelope with code -32600 came back as Error::Request.
C8_Witness ==
    /\ RequestReplied
    /\ ~SuccessEnvelope(completed.body) /\ ErrorEnvelope(completed.body)
    /\ completed.body.error.code = -32600
    /\ completed.outcome.tag = "Request"
    /\ completed.outcome.err.code = -32600

\* The body of a single call that is handled as an error envelope.
ErrorReplied ==
    RequestReplied /\ ~SuccessEnvelope(completed.body) /\ ErrorEnvelope(completed.body)

\* C9 as stated: an error envelope gives Error::Request only when its id is
\* the number allocated for the call; with no id or another number it gives
\* Error::InvalidRequestId.
C9_Original ==
    ErrorReplied =>
        LET b == completed.body
        IN  /\ completed.outcome.tag = "Request"
                  => b.id.t = "num" /\ b.id.v = completed.id
            /\ (b.id.t = "absent" \/ (b.id.t = "num" /\ b.id.v # completed.id))
                  => completed.outcome.tag = "InvalidRequestId"

\* C9 amended: the id check of a single call guards success envelopes only;
\* an error envelope gives Error::Request carrying the envelope's id as it
\* came, whether that id is the allocated one, another number, no u64 or
\* missing, and never Error::InvalidRequestId.
C9_ErrorEnvelopeUnchecked ==
    ErrorReplied =>
        /\ completed.outcome.tag = "Request"
        /\ completed.outcome.errid = completed.body.id
        /\ completed.outcome.tag # "InvalidRequestId"

\* C9 witness: an error envelope with another number as id came back as
\* Error::Request.
C9_Witness ==
    /\ ErrorReplied
    /\ completed.body.id.t = "num" /\ completed.body.id.v # completed.id
    /\ completed.outcome.tag = "Request"

\* C10: no step of a notification changes the id counter or allocates an
\* id, and a notification returns Ok, Error::TransportError or the
\* Error::ParseError of serialization without having read a response.
C10_NotificationFrame ==
    [][ \A c \in Callers :
          ( /\ call'[c] # call[c]
            /\ (call[c].kind = "notification" \/ call'[c].kind = "notification") )
          => /\ request_id' = request_id
             /\ allocs' = allocs
             /\ call'[c].pc = "done" =>
                   /\ completed'.caller = c
                   /\ ~completed'.replied
                   /\ \/ call'[c].outcome.tag \in {"Ok", "TransportError"}
                      \/ call'[c].outcome = SerializeFailure ]_vars

\* C10 witness: two notifications have been issued, the second has returned
\* Ok, and the counter is where build left it.
C10_Witness ==
    /\ completed.kind = "notification"
    /\ completed.outcome.tag = "Ok"
    /\ ncalls >= 2
    /\ \A c \in Callers : call[c].kind \in {"none", "notification"}
    /\ last.op = "build"
    /\ request_id = U64Zero

\* The outcomes of a call: Ok is Correlated-Success, Request is
\* Correlated-ProtocolError, TransportError is Failed-Transport,
\* InvalidRequestId is Failed-Unattributable, ParseError is Failed-Parse.
TerminalTags == {"Ok", "Request", "TransportError", "InvalidRequestId", "ParseError"}

\* C11: a call that has been sent stays as it is until it ends in exactly one
\* of the five outcomes; a call that has ended keeps its outcome unchanged
\* until the caller takes it, whatever the other caller does; a call that has
\* not ended has no outcome.
C11_TerminalOutcomes ==
    [][\A c \in Callers :
        /\ call[c].pc = "sent" =>
               \/ call'[c] = call[c]
               \/ /\ call'[c] = [call[c] EXCEPT !.pc = "done",
                                                 !.outcome = call'[c].outcome]
                  /\ call'[c].outcome.tag \in TerminalTags
        /\ call[c].pc = "done" =>
               /\ call[c].outcome.tag \in TerminalTags
               /\ call'[c] \in {call[c], IdleCall}
        /\ call[c].pc \in {"idle", "alloc", "sent"} => call[c].outcome = NoOutcome
      ]_vars

\* C11 witness: the call of one caller has ended as unattributable while the
\* call the other caller started before it is still sent.
C11_Witness ==
    \E c, d \in Callers :
        /\ call[c].pc = "done" /\ call[c].outcome.tag = "InvalidRequestId"
        /\ call[d].pc = "sent" /\ call[d].no < call[c].no

\* C12: a call invokes the transport at most once: a call that is sent or has
\* ended after its send has invoked it exactly once, a call that ended before
\* its send never; a call whose invocation failed ends with TransportError,
\* with no value, nothing of a reply decoded or correlated.
C12_TransportOnce ==
    /\ \A c \in Callers :
        /\ call[c].sends \in {0, 1}
        /\ call[c].pc = "sent" => call[c].sends = 1
        /\ call[c].pc \in {"idle", "alloc"} => call[c].sends = 0
        /\ call[c].pc = "done" /\ call[c].outcome.tag = "TransportError" =>
               /\ call[c].sends = 1
               /\ call[c].outcome = Err("TransportError")
        /\ call[c].pc = "done" /\ call[c].sends = 0 =>
               call[c].outcome = SerializeFailure
    /\ completed.kind # "none" /\ completed.outcome.tag = "TransportError" =>
           ~completed.replied
    /\ completed.kind \in {"request", "batch"} /\ ~completed.replied
           /\ call[completed.caller].sends = 1 =>
           completed.outcome = Err("TransportError")

\* C12 witness: a batch whose one invocation of the transport failed has
\* ended with TransportError while the other caller's call is still sent.
C12_Witness ==
    /\ completed.kind = "batch" /\ ~completed.replied
    /\ completed.outcome.tag = "TransportError"
    /\ call[completed.caller].sends = 1
    /\ \E d \in Callers \ {completed.caller} : call[d].pc = "sent"

\* The least member of a nonempty set of numbers.
Least(S) == CHOOSE j \in S : \A m \in S : j <= m

\* The envelopes of a reply array that cannot be attributed to ids.
Unattributed(b, ids) ==
    {j \in 1..Len(b.elems) :
        b.elems[j].id.t # "num" \/ b.elems[j].id.v \notin Range(ids)}

\* What a call ends with, told from nothing but its own kind, its own id or
\* ids and what the transport returned to it.
OwnOutcomeTags(rec, replied, b) ==
    IF rec.kind = "notification" THEN {"Ok", "TransportError"}
    ELSE IF ~replied THEN {"TransportError"}
    ELSE IF rec.kind = "request" /\ SuccessEnvelope(b)
    THEN IF b.id = NumRawId(rec.id) THEN {"Ok"}
         ELSE IF Unparseable(b.id) THEN {"ParseError"} ELSE {"InvalidRequestId"}
    ELSE IF rec.kind = "batch" /\ SuccessArray(b)
    THEN LET bad == Unattributed(b, rec.ordered_requests)
         IN  IF bad = {} THEN {"Ok"}
             ELSE IF Unparseable(b.elems[Least(bad)].id) THEN {"ParseError"}
             ELSE {"InvalidRequestId"}
    ELSE IF ErrorEnvelope(b) THEN {"Request"}
    ELSE {"ParseError"}

\* C13: a step of one caller (starting, allocating, sending, completing,
\* returning or abandoning a call) leaves the call of the other caller as it
\* is; completing, returning or abandoning a call changes no shared state of
\* the client, the id counter included; and the outcome a call ends with is
\* told from its own id or ids and the transport's answer to it alone,
\* whatever the other caller did in between.
C13_Independent ==
    [][\A c \in Callers :
        /\ call'[c] # call[c] => \A d \in Callers \ {c} : call'[d] = call[d]
        /\ call[c].pc \in {"sent", "done"} /\ call'[c] # call[c] =>
               /\ request_id' = request_id
               /\ built' = built
               /\ allocs' = allocs
        /\ call[c].pc = "sent" /\ call'[c].pc = "done" =>
               /\ completed'.caller = c
               /\ call'[c].outcome.tag \in
                      OwnOutcomeTags(call[c], completed'.replied, completed'.body)
               /\ call[c].kind = "request" /\ call'[c].outcome.tag = "Ok" =>
                      call'[c].outcome.value = completed'.body.result.v
      ]_vars

\* C13 witness: a call is abandoned while sent, and the call the other caller
\* started after it holds the result it ended with.
C13_Witness ==
    /\ completed.outcome.tag = "abandoned"
    /\ call[completed.caller] = IdleCall
    /\ \E d \in Callers \ {completed.caller} :
          /\ call[d].pc = "done" /\ call[d].outcome.tag = "Ok"
          /\ call[d].kind = "batch" /\ call[d].n = MaxBatch
          /\ \E j \in 1..Len(allocs) :
                /\ allocs[j].id = completed.id /\ allocs[j].caller = completed.caller
                /\ allocs[j].no < call[d].no

\* The place in the client's allocation order of the allocation made by
\* call number no for its entry at position pos.
AllocIndex(no, pos) ==
    CHOOSE k \in 1..Len(allocs) : allocs[k].no = no /\ allocs[k].pos = pos

\* C14: a batch_request holds one allocated id per entry it has gone through,
\* N once it is sent: the ids are pairwise distinct, the i-th id is the one
\* allocated for the i-th entry, in submission order, request_set has exactly
\* these ids as keys and maps the id of the i-th entry to position i
\* (counted from 0), also with the other caller allocating in between; two
\* ids whose allocations no other allocation separates are consecutive.
C14_BatchAllocation ==
    \A c \in Callers :
        call[c].kind = "batch" =>
            LET ids == call[c].ordered_requests
                request_set == call[c].request_set
            IN  /\ Len(ids) <= call[c].n
                /\ call[c].pc \in {"sent", "done"} => Len(ids) = call[c].n
                /\ \A i, j \in 1..Len(ids) : i # j => ids[i] # ids[j]
                /\ DOMAIN request_set = Range(ids)
                /\ Cardinality(DOMAIN request_set) = Len(ids)
                /\ \A i \in 1..Len(ids) :
                      /\ request_set[ids[i]] = i - 1
                      /\ Cardinality({k \in 1..Len(allocs) :
                             allocs[k].no = call[c].no /\ allocs[k].pos = i - 1}) = 1
                      /\ allocs[AllocIndex(call[c].no, i - 1)].id = ids[i]
                      /\ allocs[AllocIndex(call[c].no, i - 1)].caller = c
                /\ \A i \in 1..(Len(ids) - 1) :
                      /\ AllocIndex(call[c].no, i - 1) < AllocIndex(call[c].no, i)
                      /\ AllocIndex(call[c].no, i) = AllocIndex(call[c].no, i - 1) + 1
                             => IsSuccessor(ids[i], ids[i + 1])

\* C14 witness: a sent batch of MaxBatch entries, the other caller having
\* allocated an id between its first two allocations.
C14_Witness ==
    \E c \in Callers :
        /\ call[c].kind = "batch" /\ call[c].pc = "sent" /\ call[c].n = MaxBatch
        /\ AllocIndex(call[c].no, 1) > AllocIndex(call[c].no, 0) + 1
        /\ ~IsSuccessor(call[c].ordered_requests[1], call[c].ordered_requests[2])

\* The envelopes of the reply that carry id.
EnvelopesOf(b, id) == {j \in 1..Len(b.elems) : b.elems[j].id = NumRawId(id)}

\* The greatest member of a nonempty set of numbers.
Greatest(S) == CHOOSE j \in S : \A m \in S : m <= j

\* The reply is an array of success envelopes, each with an allocated id.
AllAllocated(b, ids) == SuccessArray(b) /\ Unattributed(b, ids) = {}

DuplicateId(b, ids) ==
    \E i \in 1..Len(ids) : Cardinality(EnvelopesOf(b, ids[i])) >= 2

\* C18: a reply array of success envelopes with allocated ids, two or more of
\* them with the same id, is accepted without error, a reply with more
\* envelopes than the batch has entries included: batch_request returns Ok
\* and the position of an id holds the result of the last envelope of the
\* reply with that id.
C18_DuplicateLastWins ==
    (BatchReplied /\ AllAllocated(completed.body, completed.ordered_requests)
        /\ DuplicateId(completed.body, completed.ordered_requests)) =>
        LET b == completed.body
            ids == completed.ordered_requests
            out == completed.outcome
        IN  /\ out.tag = "Ok"
            /\ Len(out.values) = Len(ids)
            /\ \A i \in 1..Len(ids) :
                  EnvelopesOf(b, ids[i]) # {} =>
                      out.values[i] = b.elems[Greatest(EnvelopesOf(b, ids[i]))].result.v

\* C18 witness: a reply longer than the batch carries the first id twice
\* with different results, and the first position holds the later one.
C18_Witness ==
    /\ BatchReplied /\ AllAllocated(completed.body, completed.ordered_requests)
    /\ Len(completed.ordered_requests) >= 1
    /\ Len(completed.body.elems) > Len(completed.ordered_requests)
    /\ \E j, m \in EnvelopesOf(completed.body, completed.ordered_requests[1]) :
          /\ j < m
          /\ m = Greatest(EnvelopesOf(completed.body, completed.ordered_requests[1]))
          /\ completed.body.elems[j].result.v # completed.body.elems[m].result.v
          /\ completed.outcome.tag = "Ok"
          /\ completed.outcome.values[1] = completed.body.elems[m].result.v

\* The j-th element of the reply array is an error envelope: an object with
\* an error member and no result member.
ErrorElementAt(b, j) ==
    /\ b.k = "arr" /\ j \in 1..Len(b.elems)
    /\ ErrorEnvelope(b.elems[j]) /\ ~b.elems[j].result.present

\* C19: a reply array with an error envelope among its elements fails the
\* whole batch with Error::ParseError, the failure being that of decoding the
\* array as one error envelope: no values are returned, neither those of the
\* valid elements, and the error is never Error::Request.
C19_ErrorElementParseError ==
    (BatchReplied /\ \E j \in 1..Len(completed.body.elems) :
                         ErrorElementAt(completed.body, j)) =>
        /\ completed.outcome = ErrParseError(DecodeFailure("JsonRpcErrorAlloc"))
        /\ completed.outcome.tag \notin {"Ok", "Request"}
        /\ completed.outcome.values = <<>>

\* C19 witness: a batch of MaxBatch entries was answered with the success
\* envelope of one entry and an error envelope for the other, and returned
\* Error::ParseError.
C19_Witness ==
    /\ BatchReplied /\ Len(completed.ordered_requests) = MaxBatch
    /\ Len(completed.body.elems) = MaxBatch
    /\ \E j, m \in 1..Len(completed.body.elems) :
          /\ ErrorElementAt(completed.body, j)
          /\ completed.body.elems[j].id = NumRawId(completed.ordered_requests[1])
          /\ SuccessEnvelope(completed.body.elems[m])
          /\ completed.body.elems[m].id = NumRawId(completed.ordered_requests[MaxBatch])
    /\ completed.outcome.tag = "ParseError"

\* The entries of the batches in their allocation loop that have no id yet.
RECURSIVE PendingEntries(_)
PendingEntries(S) ==
    IF S = {} THEN 0
    ELSE LET c == CHOOSE x \in S : TRUE
             pending == IF call[c].pc = "alloc"
                        THEN call[c].n - Len(call[c].ordered_requests) ELSE 0
         IN  pending + PendingEntries(S \ {c})

\* C17: the counter of a client built with its counter at 0 is the number of
\* request calls started plus the lengths of the batch_request calls started
\* (less the entries a batch still in its loop has not reached), whatever
\* the calls ended with and whether they were sent, failed to serialize, got
\* an answer, were abandoned or are still in flight: no id is given back.
\* With no batch in its loop the counter is exactly that sum.
C17_IdsConsumed ==
    built =>
        /\ request_id = U64Of(issued - PendingEntries(Callers))
        /\ Len(allocs) = issued - PendingEntries(Callers)
        /\ (\A c \in Callers : call[c].pc # "alloc") => request_id = U64Of(issued)

\* C17 witness: MaxCalls calls were started and asked for
\* MaxBatch + MaxCalls - 1 ids in all, the last of them to end, a batch,
\* failed as unattributable, no call is in flight, and the counter is the sum.
C17_Witness ==
    /\ ncalls = MaxCalls /\ issued = MaxBatch + (MaxCalls - 1)
    /\ completed.kind = "batch" /\ completed.outcome.tag = "InvalidRequestId"
    /\ \A c \in Callers : call[c].pc \in {"idle", "done"}
    /\ request_id = U64Of(issued)

\* C16: over a transport that returns a body or a failure for every send,
\* every call that is sent ends: a caller whose call is sent gets to a state
\* where that call is done, whatever the other caller does meanwhile.
C16_SentTerminates ==
    \A c \in Callers : (call[c].pc = "sent") ~> (call[c].pc = "done")

\* C16 witness: the batch of one caller has ended while the call the other
\* caller started before it is still sent.
C16_Witness ==
    \E c, d \in Callers :
        /\ call[c].pc = "done" /\ call[c].kind = "batch"
        /\ call[c].outcome.tag \in TerminalTags
        /\ call[d].pc = "sent" /\ call[d].kind \in {"request", "batch"}
        /\ call[d].no < call[c].no

=============================================================================
